---- MODULE Spec2Model ----
(***************************************************************************)
(* Model of the sandbox paper-trading engine (SandboxBroker), of the       *)
(* request validation and routes in front of it (createOrderSchema, order, *)
(* portfolio and quote routes) and of the websocket market-data server     *)
(* with the timers of its subscriptions.                                   *)
(*                                                                         *)
(* Prices are integers counted in tenths (the 0.1 half-spread of a quote   *)
(* built around a base price is 1), and base prices are drawn from a small *)
(* set in place of 100 + Math.random() * 100.  JavaScript numbers are      *)
(* modelled as exact rationals: an integer where the code only copies or   *)
(* adds prices, a reduced fraction <<n, d>> where it divides               *)
(* (Position.averagePrice, Position.unrealizedPnl).  An optional field     *)
(* (filledQuantity?:) is <<>> when undefined and <<v>> when set.           *)
(*                                                                         *)
(* placeOrder is an async function with one await: the code before the     *)
(* await (PlaceOrderCall) and the code after it (PlaceOrderResume) are     *)
(* separate steps; continuations resume in call order (microtask FIFO).    *)
(* An orderId SANDBOX-n is modelled by n.                                  *)
(***************************************************************************)
EXTENDS Integers, Sequences, FiniteSets, TLC

\* ---------------------------------------------------------------- bounds
\* placeOrder is called at most MaxOrders times
MaxOrders == 2

\* ---------------------------------------------------------------- inputs
Symbols == {"AAPL", "NEWCO"}
defaultSymbols == {"AAPL"}
Sides == {"buy", "sell"}
\* base prices of quotes, in tenths
BasePrices == {2, 4, 6}
\* limit prices and stop prices of requests, in tenths: a limit buy is crossed
\* strictly at base 2, exactly at base 4, a limit sell exactly at base 6; a
\* stop is triggered exactly at base 4 and strictly at base 6 (buy), 2 (sell)
LimitPrices == {5}
StopPrices == {4}
\* quantities of requests (0 is not positive)
Quantities == {0, 1}

None == <<>>
Some(v) == <<v>>

\* ------------------------------------------------------------- rationals
Abs(x) == IF x < 0 THEN -x ELSE x

RECURSIVE Gcd(_, _)
Gcd(a, b) == IF b = 0 THEN a ELSE Gcd(b, a % b)

\* the number n/d (d # 0) as a reduced fraction with positive denominator
Rat(n, d) ==
  LET g == Gcd(Abs(n), Abs(d))
      s == IF d < 0 THEN -1 ELSE 1
  IN  <<(s * n) \div g, (s * d) \div g>>

RatInt(i) == <<i, 1>>
RatAdd(x, y) == Rat(x[1] * y[2] + y[1] * x[2], x[2] * y[2])
RatSub(x, y) == Rat(x[1] * y[2] - y[1] * x[2], x[2] * y[2])
RatMul(x, y) == Rat(x[1] * y[1], x[2] * y[2])
RatDiv(x, y) == Rat(x[1] * y[2], x[2] * y[1])

\* ------------------------------------------------------------ data types
\* MarketQuote (volume and timestamp play no part in matching)
MarketQuote(symbol, bid, ask, last) ==
  [symbol |-> symbol, bid |-> bid, ask |-> ask, last |-> last]

\* the quote built around a random base price, bid and ask the wrong way round
baseQuote_crossed(symbol, basePrice) ==
  MarketQuote(symbol, basePrice + 1, basePrice - 1, basePrice)

\* the quote built around a random base price
baseQuote(symbol, basePrice) ==
  MarketQuote(symbol, basePrice - 1, basePrice + 1, basePrice)

\* ticks of the feed: quotes of the default symbols at any base price, bid and
\* ask one tenth around it; the other symbol never gets a stored quote
QuoteInputs == {baseQuote(s, b) : s \in defaultSymbols, b \in BasePrices}

\* OrderRequest bodies a client may post
OrderRequest(symbol, side, type, quantity, price, stopPrice) ==
  [symbol |-> symbol, side |-> side, type |-> type, quantity |-> quantity,
   price |-> price, stopPrice |-> stopPrice]

RequestShapes ==
  {<<"market", None, None>>, <<"limit", None, None>>, <<"stop", None, None>>}
  \cup {<<"limit", Some(p), None>> : p \in LimitPrices}
  \cup {<<"stop", None, Some(p)>> : p \in StopPrices}

\* every shape of request on the default symbols, market orders on the other
RequestInputs ==
  {OrderRequest(s, sd, sh[1], q, sh[2], sh[3]) :
     s \in defaultSymbols, sd \in Sides, sh \in RequestShapes, q \in Quantities}
  \cup {OrderRequest(s, sd, "market", q, None, None) :
          s \in Symbols \ defaultSymbols, sd \in Sides, q \in Quantities}

\* createOrderSchema.parse succeeds
createOrderSchema(body) ==
  /\ body.symbol # ""
  /\ body.side \in Sides
  /\ body.type \in {"market", "limit", "stop", "stop_limit"}
  /\ body.quantity > 0
  /\ (body.price # None => body.price[1] > 0)
  /\ (body.stopPrice # None => body.stopPrice[1] > 0)

\* ----------------------------------------------------------------- state
VARIABLES
  marketData,      \* Map symbol -> MarketQuote
  orders,          \* Map orderId -> order record, in insertion order
  positions,       \* Map symbol -> Position
  orderIdCounter,  \* next order id
  inflight,        \* placeOrder calls suspended at their await, in call order
  fillLog,         \* the 'Sandbox order filled' log lines, in order
  last,            \* the most recent call and what it returned or threw
  intervals,       \* the timers subscribeToMarketData has set, in order
  connections,     \* Map websocket connection -> WebSocketConnection
  orderRows        \* the rows of the orders table, in insertion order (the
                   \* k-th row is the row of the k-th order the route placed)

vars == <<marketData, orders, positions, orderIdCounter, inflight, fillLog, last,
          intervals, connections, orderRows>>

\* --------------------------------------------------------- Position Ledger
\* JavaScript truthiness of an optional number: set and non-zero
Truthy(opt) == opt # None /\ opt[1] # 0

\* SandboxBroker.updatePosition, a buy averaging the old average and the new
\* price without their quantities
updatePosition_simpleMean(pos, symbol, side, quantity, price) ==
  LET existing == IF symbol \in DOMAIN pos THEN pos[symbol]
                  ELSE [symbol |-> symbol, quantity |-> 0, averagePrice |-> RatInt(0),
                        currentPrice |-> price, unrealizedPnl |-> RatInt(0)]
      set(p) == [s \in (DOMAIN pos) \cup {symbol} |-> IF s = symbol THEN p ELSE pos[s]]
      delete == [s \in (DOMAIN pos) \ {symbol} |-> pos[s]]
      mark(p) == [p EXCEPT !.currentPrice = price,
                           !.unrealizedPnl = RatMul(RatSub(RatInt(price), p.averagePrice),
                                                    RatInt(p.quantity))]
  IN  IF side = "buy"
      THEN LET totalQuantity == existing.quantity + quantity
           IN  set(mark([existing EXCEPT
                           !.quantity = totalQuantity,
                           !.averagePrice = IF existing.quantity > 0
                                            THEN RatDiv(RatAdd(existing.averagePrice,
                                                               RatInt(price)), RatInt(2))
                                            ELSE RatInt(price)]))
      ELSE LET reduced == [existing EXCEPT !.quantity = existing.quantity - quantity]
           IN  IF reduced.quantity <= 0 THEN delete ELSE set(mark(reduced))

\* SandboxBroker.updatePosition, a sell deleting the position only below zero
updatePosition_keepZero(pos, symbol, side, quantity, price) ==
  LET existing == IF symbol \in DOMAIN pos THEN pos[symbol]
                  ELSE [symbol |-> symbol, quantity |-> 0, averagePrice |-> RatInt(0),
                        currentPrice |-> price, unrealizedPnl |-> RatInt(0)]
      set(p) == [s \in (DOMAIN pos) \cup {symbol} |-> IF s = symbol THEN p ELSE pos[s]]
      delete == [s \in (DOMAIN pos) \ {symbol} |-> pos[s]]
      mark(p) == [p EXCEPT !.currentPrice = price,
                           !.unrealizedPnl = RatMul(RatSub(RatInt(price), p.averagePrice),
                                                    RatInt(p.quantity))]
  IN  IF side = "buy"
      THEN LET totalCost == RatAdd(RatMul(RatInt(existing.quantity), existing.averagePrice),
                                   RatInt(quantity * price))
               totalQuantity == existing.quantity + quantity
           IN  set(mark([existing EXCEPT
                           !.quantity = totalQuantity,
                           !.averagePrice = IF totalQuantity > 0
                                            THEN RatDiv(totalCost, RatInt(totalQuantity))
                                            ELSE RatInt(price)]))
      ELSE LET reduced == [existing EXCEPT !.quantity = existing.quantity - quantity]
           IN  IF reduced.quantity < 0 THEN delete ELSE set(mark(reduced))

\* SandboxBroker.updatePosition, a sell leaving currentPrice and unrealizedPnl
\* as they were
updatePosition_staleMark(pos, symbol, side, quantity, price) ==
  LET existing == IF symbol \in DOMAIN pos THEN pos[symbol]
                  ELSE [symbol |-> symbol, quantity |-> 0, averagePrice |-> RatInt(0),
                        currentPrice |-> price, unrealizedPnl |-> RatInt(0)]
      set(p) == [s \in (DOMAIN pos) \cup {symbol} |-> IF s = symbol THEN p ELSE pos[s]]
      delete == [s \in (DOMAIN pos) \ {symbol} |-> pos[s]]
      mark(p) == [p EXCEPT !.currentPrice = price,
                           !.unrealizedPnl = RatMul(RatSub(RatInt(price), p.averagePrice),
                                                    RatInt(p.quantity))]
  IN  IF side = "buy"
      THEN LET totalCost == RatAdd(RatMul(RatInt(existing.quantity), existing.averagePrice),
                                   RatInt(quantity * price))
               totalQuantity == existing.quantity + quantity
           IN  set(mark([existing EXCEPT
                           !.quantity = totalQuantity,
                           !.averagePrice = IF totalQuantity > 0
                                            THEN RatDiv(totalCost, RatInt(totalQuantity))
                                            ELSE RatInt(price)]))
      ELSE LET reduced == [existing EXCEPT !.quantity = existing.quantity - quantity]
           IN  IF reduced.quantity <= 0 THEN delete ELSE set(reduced)

\* SandboxBroker.updatePosition, a sell never deleting: selling what is not
\* held leaves a short position
updatePosition_short(pos, symbol, side, quantity, price) ==
  LET existing == IF symbol \in DOMAIN pos THEN pos[symbol]
                  ELSE [symbol |-> symbol, quantity |-> 0, averagePrice |-> RatInt(0),
                        currentPrice |-> price, unrealizedPnl |-> RatInt(0)]
      set(p) == [s \in (DOMAIN pos) \cup {symbol} |-> IF s = symbol THEN p ELSE pos[s]]
      mark(p) == [p EXCEPT !.currentPrice = price,
                           !.unrealizedPnl = RatMul(RatSub(RatInt(price), p.averagePrice),
                                                    RatInt(p.quantity))]
  IN  IF side = "buy"
      THEN LET totalCost == RatAdd(RatMul(RatInt(existing.quantity), existing.averagePrice),
                                   RatInt(quantity * price))
               totalQuantity == existing.quantity + quantity
           IN  set(mark([existing EXCEPT
                           !.quantity = totalQuantity,
                           !.averagePrice = IF totalQuantity > 0
                                            THEN RatDiv(totalCost, RatInt(totalQuantity))
                                            ELSE RatInt(price)]))
      ELSE set(mark([existing EXCEPT !.quantity = existing.quantity - quantity]))

\* SandboxBroker.updatePosition: returns the new positions map
updatePosition(pos, symbol, side, quantity, price) ==
  LET existing == IF symbol \in DOMAIN pos THEN pos[symbol]
                  ELSE [symbol |-> symbol, quantity |-> 0, averagePrice |-> RatInt(0),
                        currentPrice |-> price, unrealizedPnl |-> RatInt(0)]
      set(p) == [s \in (DOMAIN pos) \cup {symbol} |-> IF s = symbol THEN p ELSE pos[s]]
      delete == [s \in (DOMAIN pos) \ {symbol} |-> pos[s]]
      mark(p) == [p EXCEPT !.currentPrice = price,
                           !.unrealizedPnl = RatMul(RatSub(RatInt(price), p.averagePrice),
                                                    RatInt(p.quantity))]
  IN  IF side = "buy"
      THEN LET totalCost == RatAdd(RatMul(RatInt(existing.quantity), existing.averagePrice),
                                   RatInt(quantity * price))
               totalQuantity == existing.quantity + quantity
           IN  set(mark([existing EXCEPT
                           !.quantity = totalQuantity,
                           !.averagePrice = IF totalQuantity > 0
                                            THEN RatDiv(totalCost, RatInt(totalQuantity))
                                            ELSE RatInt(price)]))
      ELSE LET reduced == [existing EXCEPT !.quantity = existing.quantity - quantity]
           IN  IF reduced.quantity <= 0 THEN delete ELSE set(mark(reduced))

\* --------------------------------------------------------- Matching Engine
\* The engine state the matching code mutates, as one value.
Engine(o, p, l) == [orders |-> o, positions |-> p, fillLog |-> l]

\* positions of the records with this orderId (Map.get)
Lookup(ords, orderId) == {i \in 1..Len(ords) : ords[i].orderId = orderId}

\* the price of a fill: the ask for a buy, the bid for a sell
fillPrice_swapped(side, quote) == IF side = "buy" THEN quote.bid ELSE quote.ask

fillPrice(side, quote) == IF side = "buy" THEN quote.ask ELSE quote.bid

\* SandboxBroker.fillOrder, leaving filledQuantity unset
fillOrder_noQuantity(st, orderId, quote) ==
  IF Lookup(st.orders, orderId) = {} THEN st
  ELSE LET i == CHOOSE j \in Lookup(st.orders, orderId) : TRUE
           order == st.orders[i]
           price == fillPrice(order.request.side, quote)
           filledQuantity == order.request.quantity
       IN  Engine([st.orders EXCEPT ![i] = [order EXCEPT !.status = "filled",
                                                         !.averagePrice = Some(price)]],
                  updatePosition(st.positions, order.request.symbol, order.request.side,
                                 filledQuantity, price),
                  Append(st.fillLog, [orderId |-> orderId, symbol |-> order.request.symbol,
                                      side |-> order.request.side, fillPrice |-> price,
                                      filledQuantity |-> filledQuantity]))

\* SandboxBroker.fillOrder
fillOrder(st, orderId, quote) ==
  IF Lookup(st.orders, orderId) = {} THEN st
  ELSE LET i == CHOOSE j \in Lookup(st.orders, orderId) : TRUE
           order == st.orders[i]
           price == fillPrice(order.request.side, quote)
           filledQuantity == order.request.quantity
       IN  Engine([st.orders EXCEPT ![i] = [order EXCEPT !.status = "filled",
                                                         !.filledQuantity = Some(filledQuantity),
                                                         !.averagePrice = Some(price)]],
                  updatePosition(st.positions, order.request.symbol, order.request.side,
                                 filledQuantity, price),
                  Append(st.fillLog, [orderId |-> orderId, symbol |-> order.request.symbol,
                                      side |-> order.request.side, fillPrice |-> price,
                                      filledQuantity |-> filledQuantity]))

\* the orders a pass looks at: pending or open; here, every order
isResting_always(order) == TRUE

isResting(order) == ~(order.status # "pending" /\ order.status # "open")

\* the limit test of a pass, with the bid in place of the ask for a buy
limitCrossed_onBid(request, quote) ==
  \/ request.side = "buy" /\ quote.bid <= request.price[1]
  \/ request.side = "sell" /\ quote.bid >= request.price[1]

\* the limit test of a pass: the ask has come down to a buy's limit price, the
\* bid has come up to a sell's
limitCrossed(request, quote) ==
  \/ request.side = "buy" /\ quote.ask <= request.price[1]
  \/ request.side = "sell" /\ quote.bid >= request.price[1]

\* the stop test of a pass, with strict comparisons
stopTriggered_strict(request, quote) ==
  \/ request.side = "buy" /\ quote.last > request.stopPrice[1]
  \/ request.side = "sell" /\ quote.last < request.stopPrice[1]

\* the stop test of a pass: last has come up to a buy's stop price, down to a
\* sell's
stopTriggered(request, quote) ==
  \/ request.side = "buy" /\ quote.last >= request.stopPrice[1]
  \/ request.side = "sell" /\ quote.last <= request.stopPrice[1]

\* one iteration of the loop of processPendingOrders, with the market test
\* ahead of the status test
evaluateOrder_marketFirst(st, i, quote) ==
  LET order == st.orders[i]
      orderId == order.orderId
      request == order.request
      convert == Engine([st.orders EXCEPT ![i].request.type = "market"],
                        st.positions, st.fillLog)
  IN  IF request.symbol # quote.symbol THEN st
      ELSE IF request.type = "market" THEN fillOrder(st, orderId, quote)
      ELSE IF ~isResting(order) THEN st
      ELSE IF request.type = "limit" /\ Truthy(request.price)
        THEN IF limitCrossed(request, quote) THEN fillOrder(st, orderId, quote) ELSE st
      ELSE IF request.type = "stop" /\ Truthy(request.stopPrice)
        THEN IF stopTriggered(request, quote) THEN fillOrder(convert, orderId, quote) ELSE st
      ELSE st

\* one iteration of the loop of processPendingOrders, without the test of
\* the symbol
evaluateOrder_anySymbol(st, i, quote) ==
  LET order == st.orders[i]
      orderId == order.orderId
      request == order.request
      convert == Engine([st.orders EXCEPT ![i].request.type = "market"],
                        st.positions, st.fillLog)
  IN  IF ~isResting(order) THEN st
      ELSE IF request.type = "market" THEN fillOrder(st, orderId, quote)
      ELSE IF request.type = "limit" /\ Truthy(request.price)
        THEN IF limitCrossed(request, quote) THEN fillOrder(st, orderId, quote) ELSE st
      ELSE IF request.type = "stop" /\ Truthy(request.stopPrice)
        THEN IF stopTriggered(request, quote) THEN fillOrder(convert, orderId, quote) ELSE st
      ELSE st

\* one iteration of the loop of processPendingOrders, a triggered stop
\* filled with its kind left as it is
evaluateOrder_noConvert(st, i, quote) ==
  LET order == st.orders[i]
      orderId == order.orderId
      request == order.request
  IN  IF ~isResting(order) THEN st
      ELSE IF request.symbol # quote.symbol THEN st
      ELSE IF request.type = "market" THEN fillOrder(st, orderId, quote)
      ELSE IF request.type = "limit" /\ Truthy(request.price)
        THEN IF limitCrossed(request, quote) THEN fillOrder(st, orderId, quote) ELSE st
      ELSE IF request.type = "stop" /\ Truthy(request.stopPrice)
        THEN IF stopTriggered(request, quote) THEN fillOrder(st, orderId, quote) ELSE st
      ELSE st

\* one iteration of the loop of processPendingOrders, on the i-th entry
evaluateOrder(st, i, quote) ==
  LET order == st.orders[i]
      orderId == order.orderId
      request == order.request
      convert == Engine([st.orders EXCEPT ![i].request.type = "market"],
                        st.positions, st.fillLog)
  IN  IF ~isResting(order) THEN st
      ELSE IF request.symbol # quote.symbol THEN st
      ELSE IF request.type = "market" THEN fillOrder(st, orderId, quote)
      ELSE IF request.type = "limit" /\ Truthy(request.price)
        THEN IF limitCrossed(request, quote) THEN fillOrder(st, orderId, quote) ELSE st
      ELSE IF request.type = "stop" /\ Truthy(request.stopPrice)
        THEN IF stopTriggered(request, quote) THEN fillOrder(convert, orderId, quote) ELSE st
      ELSE st

\* SandboxBroker.processPendingOrders: the entries in insertion order
RECURSIVE processFrom(_, _, _)
processFrom(st, i, quote) ==
  IF i > Len(st.orders) THEN st
  ELSE processFrom(evaluateOrder(st, i, quote), i + 1, quote)

\* SandboxBroker.processPendingOrders, the entries taken newest first
processPendingOrders_newestFirst(st, quote) ==
  LET n == Len(st.orders)
      pass[k \in 0..n] == IF k = 0 THEN st ELSE evaluateOrder(pass[k - 1], n - k + 1, quote)
  IN  pass[n]

\* SandboxBroker.processPendingOrders, looking at no order
processPendingOrders_skipped(st, quote) == st

processPendingOrders(st, quote) == processFrom(st, 1, quote)

\* SandboxBroker.getQuote: the quotes a call may return (one when the symbol
\* is stored, any base price when it is not)
getQuote(md, symbol) ==
  IF symbol \in DOMAIN md THEN {md[symbol]}
  ELSE {baseQuote(symbol, basePrice) : basePrice \in BasePrices}

\* OrderResponse returned to the caller
OrderResponse(order) ==
  [orderId |-> order.orderId, status |-> order.status,
   filledQuantity |-> order.filledQuantity, averagePrice |-> order.averagePrice]

\* the test of placeOrder for an immediate fill, for market orders only
fillsAtPlacement_marketOnly(order, quote) == order.type = "market"

\* the test of placeOrder for an immediate fill: a market order, or a limit
\* order the quote crosses
fillsAtPlacement(order, quote) ==
  \/ order.type = "market"
  \/ /\ order.type = "limit" /\ Truthy(order.price)
     /\ \/ order.side = "buy" /\ quote.ask <= order.price[1]
        \/ order.side = "sell" /\ quote.bid >= order.price[1]

\* SandboxBroker.placeOrder after its await, returning an order it does not
\* fill as it was inserted
placeOrder_leftPending(st, orderId, order, quote) ==
  LET orderResponse == [orderId |-> orderId, status |-> "pending",
                        filledQuantity |-> None, averagePrice |-> None, request |-> order]
      inserted == Engine(Append(st.orders, orderResponse), st.positions, st.fillLog)
  IN  IF fillsAtPlacement(order, quote) THEN fillOrder(inserted, orderId, quote) ELSE inserted

\* SandboxBroker.placeOrder after its await: insert the record, try to fill
placeOrder(st, orderId, order, quote) ==
  LET orderResponse == [orderId |-> orderId, status |-> "pending",
                        filledQuantity |-> None, averagePrice |-> None, request |-> order]
      inserted == Engine(Append(st.orders, orderResponse), st.positions, st.fillLog)
      i == Len(inserted.orders)
      open == Engine([inserted.orders EXCEPT ![i].status = "open"],
                     inserted.positions, inserted.fillLog)
  IN  IF fillsAtPlacement(order, quote) THEN fillOrder(inserted, orderId, quote) ELSE open

\* SandboxBroker.getOrderStatus, answering an unknown id with a pending order
getOrderStatus_noThrow(ords, orderId) ==
  IF Lookup(ords, orderId) = {}
    THEN Some([orderId |-> orderId, status |-> "pending",
               filledQuantity |-> None, averagePrice |-> None])
  ELSE Some(OrderResponse(ords[CHOOSE j \in Lookup(ords, orderId) : TRUE]))

\* SandboxBroker.getOrderStatus: <<response>>, or <<>> when it throws
getOrderStatus(ords, orderId) ==
  IF Lookup(ords, orderId) = {} THEN None
  ELSE Some(OrderResponse(ords[CHOOSE j \in Lookup(ords, orderId) : TRUE]))

\* ------------------------------------------------------------------ steps
\* The record of a call: its name, the orderId and quote it was given (0, <<>>
\* when it takes none), <<its return value>> (<<>> when it returns nothing or
\* throws), and the orderIds of the fills it logged.
Returned(op, orderId, quote, result, filled) ==
  [op |-> op, orderId |-> orderId, quote |-> quote, result |-> result, filled |-> filled]

\* the orderIds of the log lines added to log by a call that left newLog
Logged(log, newLog) ==
  [k \in 1..(Len(newLog) - Len(log)) |-> newLog[Len(log) + k].orderId]

Init ==
  /\ marketData \in [defaultSymbols -> {baseQuote(s, b) : s \in defaultSymbols, b \in BasePrices}]
  /\ \A s \in defaultSymbols : marketData[s].symbol = s
  /\ orders = <<>>
  /\ positions = <<>>
  /\ orderIdCounter = 1
  /\ inflight = <<>>
  /\ fillLog = <<>>
  /\ last = Returned("new", 0, None, None, <<>>)
  /\ intervals = <<>>
  /\ connections = <<>>
  /\ orderRows = <<>>

\* POST /orders with a body createOrderSchema rejects: the handler throws
\* before it reaches the broker
PostOrderInvalid(body) ==
  /\ ~createOrderSchema(body)
  /\ last' = Returned("invalid", 0, None, None, <<>>)
  /\ UNCHANGED <<orderRows, marketData, orders, positions, orderIdCounter, inflight, fillLog,
                  intervals, connections>>

\* placeOrder up to its await, the id made from the number of stored orders
PlaceOrderCall_idFromSize(order) ==
  /\ createOrderSchema(order)
  /\ orderIdCounter <= MaxOrders
  /\ \E quote \in getQuote(marketData, order.symbol) :
       inflight' = Append(inflight, [orderId |-> Len(orders) + 1, order |-> order,
                                     quote |-> quote])
  /\ orderIdCounter' = orderIdCounter + 1
  /\ UNCHANGED <<orderRows, marketData, orders, positions, fillLog, last, intervals, connections>>

\* placeOrder up to its await: take the id, read the quote
PlaceOrderCall(order) ==
  /\ createOrderSchema(order)
  /\ orderIdCounter <= MaxOrders
  /\ \E quote \in getQuote(marketData, order.symbol) :
       inflight' = Append(inflight, [orderId |-> orderIdCounter, order |-> order,
                                     quote |-> quote])
  /\ orderIdCounter' = orderIdCounter + 1
  /\ UNCHANGED <<orderRows, marketData, orders, positions, fillLog, last, intervals, connections>>

\* placeOrder from its await to its return
PlaceOrderResume ==
  /\ inflight # <<>>
  /\ LET call == Head(inflight)
         st == placeOrder(Engine(orders, positions, fillLog),
                          call.orderId, call.order, call.quote)
     IN  /\ orders' = st.orders
         /\ positions' = st.positions
         /\ fillLog' = st.fillLog
         /\ last' = Returned("placeOrder", call.orderId, Some(call.quote),
                             Some(OrderResponse(st.orders[Len(st.orders)])),
                             Logged(fillLog, st.fillLog))
  /\ inflight' = Tail(inflight)
  /\ UNCHANGED <<orderRows, marketData, orderIdCounter, intervals, connections>>

\* SandboxBroker.updateMarketData, called with a tick.  A tick arrives in a
\* task of its own (a timer or feed callback), and a suspended placeOrder
\* resumes in the microtasks of the task that called it, hence before any
\* tick is handled.
UpdateMarketData(quote) ==
  /\ inflight = <<>>
  /\ marketData' = [s \in (DOMAIN marketData) \cup {quote.symbol} |->
                      IF s = quote.symbol THEN quote ELSE marketData[s]]
  /\ LET st == processPendingOrders(Engine(orders, positions, fillLog), quote)
     IN  /\ orders' = st.orders
         /\ positions' = st.positions
         /\ fillLog' = st.fillLog
         /\ last' = Returned("updateMarketData", 0, Some(quote), None,
                             Logged(fillLog, st.fillLog))
  /\ UNCHANGED <<orderRows, orderIdCounter, inflight, intervals, connections>>

\* SandboxBroker.getOrderStatus
GetOrderStatus(orderId) ==
  /\ last' = Returned("getOrderStatus", orderId, None, getOrderStatus(orders, orderId),
                      <<>>)
  /\ UNCHANGED <<orderRows, marketData, orders, positions, orderIdCounter, inflight, fillLog,
                  intervals, connections>>

Next ==
  \/ \E body \in RequestInputs : PostOrderInvalid(body)
  \/ \E order \in RequestInputs : PlaceOrderCall(order)
  \/ PlaceOrderResume
  \/ \E quote \in QuoteInputs : UpdateMarketData(quote)
  \/ \E orderId \in 1..orderIdCounter : GetOrderStatus(orderId)

Spec == Init /\ [][Next]_vars

\* ------------------------------------------------------------ two symbols
\* The broker with resting orders and ticks on two symbols: a limit buy on
\* either symbol, ticks of either symbol at any base price.
TwoSymbolRequests ==
  {OrderRequest(s, "buy", "limit", 1, Some(p), None) : s \in Symbols, p \in LimitPrices}

TwoSymbolQuotes == {baseQuote(s, b) : s \in Symbols, b \in BasePrices}

NextTwoSymbols ==
  \/ \E order \in TwoSymbolRequests : PlaceOrderCall(order)
  \/ PlaceOrderResume
  \/ \E quote \in TwoSymbolQuotes : UpdateMarketData(quote)

TwoSymbols == Init /\ [][NextTwoSymbols]_vars

\* ----------------------------------------------------------------- server
\* The routes and the websocket server in front of the one SandboxBroker
\* (export const sandboxBroker = new SandboxBroker()) every user shares.

\* subscribeToMarketData sets at most MaxIntervals timers
MaxIntervals == 2

\* authenticated users; websocket connection c is opened with user c's token
Users == {1, 2}
Sockets == {1, 2}
\* the symbol lists of subscribe and unsubscribe messages
SymbolLists == {<<s>> : s \in Symbols}
\* the movements (Math.random() - 0.5) * 0.5 of a simulated tick, in tenths
Changes == {-2, 0, 2}

\* bodies posted to the order route: market orders of one or two units on the
\* default symbols, a market buy on the other
ServerRequests ==
  {OrderRequest(s, sd, "market", q, None, None) :
     s \in defaultSymbols, sd \in Sides, q \in {1, 2}}
  \cup {OrderRequest(s, "buy", "market", 1, None, None) : s \in Symbols \ defaultSymbols}

\* bodies posted while the feed runs: a limit buy, filled when it is placed or
\* by a later tick
FeedRequests ==
  {OrderRequest(s, "buy", "limit", 1, Some(p), None) : s \in defaultSymbols, p \in LimitPrices}

\* the elements of a list
Range(f) == {f[k] : k \in DOMAIN f}

\* The record of a handled request, message or timer: its name, the user or
\* socket it came from (0 for a timer), the orderId it placed (0 when none),
\* the timer that fired (0 when none), the quote it used or made, <<its
\* answer>>, the orderIds of the fills it logged, and the messages it wrote
\* to sockets (socket.send), in order.
Handled(op, user, orderId, interval, quote, result, filled, sent) ==
  [op |-> op, user |-> user, orderId |-> orderId, interval |-> interval,
   quote |-> quote, result |-> result, filled |-> filled, sent |-> sent]

\* SandboxBroker.getPositions: every position of the ledger
getPositions(pos) == {pos[s] : s \in DOMAIN pos}

\* the simulated price movement of a timer: bid, ask and last move together
perturb(quote, change) ==
  [quote EXCEPT !.bid = @ + change, !.ask = @ + change, !.last = @ + change]

\* SandboxBroker.subscribeToMarketData: one timer per symbol of the list, each
\* holding the callback of the socket that subscribed
subscribeToMarketData(ivs, symbols, socket) ==
  ivs \o [k \in 1..Len(symbols) |-> [symbol |-> symbols[k], socket |-> socket]]

\* SandboxBroker.unsubscribeFromMarketData: its body is empty
unsubscribeFromMarketData(ivs, symbols) == ivs

\* the row POST /orders inserts: the columns it takes from the answer of the
\* broker (the others repeat the request and the user)
OrderRow(brokerResponse) ==
  [status |-> brokerResponse.status,
   filledQuantity |-> IF Truthy(brokerResponse.filledQuantity)
                        THEN brokerResponse.filledQuantity[1] ELSE 0,
   averagePrice |-> IF Truthy(brokerResponse.averagePrice)
                      THEN brokerResponse.averagePrice ELSE None]

\* POST /orders of a user, up to the await inside placeOrder
PostOrderCall(user, body) ==
  /\ createOrderSchema(body)
  /\ orderIdCounter <= MaxOrders
  /\ \E quote \in getQuote(marketData, body.symbol) :
       inflight' = Append(inflight, [orderId |-> orderIdCounter, order |-> body,
                                     quote |-> quote, user |-> user])
  /\ orderIdCounter' = orderIdCounter + 1
  /\ UNCHANGED <<orderRows, marketData, orders, positions, fillLog, last, intervals, connections>>

\* POST /orders from the return of placeOrder on: the row is inserted with
\* what the broker answered, and nothing is written to any socket
\* (broadcastOrderUpdate has no caller)
PostOrderResume ==
  /\ inflight # <<>>
  /\ LET call == Head(inflight)
         st == placeOrder(Engine(orders, positions, fillLog),
                          call.orderId, call.order, call.quote)
     IN  /\ orders' = st.orders
         /\ positions' = st.positions
         /\ fillLog' = st.fillLog
         /\ orderRows' = Append(orderRows,
                                OrderRow(OrderResponse(st.orders[Len(st.orders)])))
         /\ last' = Handled("placeOrder", call.user, call.orderId, 0, Some(call.quote),
                            Some(OrderResponse(st.orders[Len(st.orders)])),
                            Logged(fillLog, st.fillLog), <<>>)
  /\ inflight' = Tail(inflight)
  /\ UNCHANGED <<marketData, orderIdCounter, intervals, connections>>

\* GET /portfolio of a user: the positions the broker reports
GetPortfolio(user) ==
  /\ last' = Handled("getPositions", user, 0, 0, None, Some(getPositions(positions)),
                     <<>>, <<>>)
  /\ UNCHANGED <<orderRows, marketData, orders, positions, orderIdCounter, inflight, fillLog,
                  intervals, connections>>

\* GET /market/quote/:symbol (the answer does not depend on the user)
GetQuote(symbol) ==
  /\ \E quote \in getQuote(marketData, symbol) :
       last' = Handled("getQuote", 0, 0, 0, Some(quote), Some(quote), <<>>, <<>>)
  /\ UNCHANGED <<orderRows, marketData, orders, positions, orderIdCounter, inflight, fillLog,
                  intervals, connections>>

\* a websocket connection is opened: a socket no timer holds yet
Connect(socket) ==
  /\ socket \notin DOMAIN connections
  /\ \A i \in 1..Len(intervals) : intervals[i].socket # socket
  /\ connections' = [c \in (DOMAIN connections) \cup {socket} |->
                       IF c = socket THEN [userId |-> socket, symbols |-> {}]
                       ELSE connections[c]]
  /\ last' = Handled("connect", socket, 0, 0, None, None, <<>>,
                     <<[to |-> socket, type |-> "connected"]>>)
  /\ UNCHANGED <<orderRows, marketData, orders, positions, orderIdCounter, inflight, fillLog,
                  intervals>>

\* handleSubscribe, from the answer of its broker_configs query on (no row
\* there: sandbox mode): set the timers, add the symbols, acknowledge
HandleSubscribe(socket, symbols) ==
  /\ socket \in DOMAIN connections
  /\ Len(intervals) + Len(symbols) <= MaxIntervals
  /\ intervals' = subscribeToMarketData(intervals, symbols, socket)
  /\ connections' = [connections EXCEPT ![socket].symbols = @ \cup Range(symbols)]
  /\ last' = Handled("subscribe", socket, 0, 0, None, None, <<>>,
                     <<[to |-> socket, type |-> "subscribed",
                        symbols |-> connections'[socket].symbols]>>)
  /\ UNCHANGED <<orderRows, marketData, orders, positions, orderIdCounter, inflight, fillLog>>

\* handleUnsubscribe: the broker call changes nothing, the symbols leave the
\* connection's set, the socket is told
HandleUnsubscribe(socket, symbols) ==
  /\ socket \in DOMAIN connections
  /\ intervals' = unsubscribeFromMarketData(intervals, symbols)
  /\ connections' = [connections EXCEPT ![socket].symbols = @ \ Range(symbols)]
  /\ last' = Handled("unsubscribe", socket, 0, 0, None, None, <<>>,
                     <<[to |-> socket, type |-> "unsubscribed",
                        symbols |-> connections'[socket].symbols]>>)
  /\ UNCHANGED <<orderRows, marketData, orders, positions, orderIdCounter, inflight, fillLog>>

\* handleDisconnect: the connection is forgotten, its timers are not
HandleDisconnect(socket) ==
  /\ socket \in DOMAIN connections
  /\ connections' = [c \in (DOMAIN connections) \ {socket} |-> connections[c]]
  /\ last' = Handled("close", socket, 0, 0, None, None, <<>>, <<>>)
  /\ UNCHANGED <<orderRows, marketData, orders, positions, orderIdCounter, inflight, fillLog,
                  intervals>>

\* the i-th timer fires (a task of its own, like any tick): when its symbol
\* has a stored quote it moves the quote, hands it to updateMarketData and
\* then to the callback, which writes a tick to its socket; when the symbol
\* has none it does nothing.  The movement is kept within BasePrices.
IntervalFires(i) ==
  /\ i \in 1..Len(intervals)
  /\ inflight = <<>>
  /\ LET symbol == intervals[i].symbol
     IN  IF symbol \in DOMAIN marketData
         THEN \E change \in Changes :
                LET quote == perturb(marketData[symbol], change)
                    st == processPendingOrders(Engine(orders, positions, fillLog), quote)
                IN  /\ quote.last \in BasePrices
                    /\ marketData' = [marketData EXCEPT ![symbol] = quote]
                    /\ orders' = st.orders
                    /\ positions' = st.positions
                    /\ fillLog' = st.fillLog
                    /\ last' = Handled("interval", 0, 0, i, Some(quote), None,
                                       Logged(fillLog, st.fillLog),
                                       <<[to |-> intervals[i].socket, type |-> "tick",
                                          quote |-> quote]>>)
         ELSE /\ last' = Handled("interval", 0, 0, i, None, None, <<>>, <<>>)
              /\ UNCHANGED <<marketData, orders, positions, fillLog>>
  /\ UNCHANGED <<orderRows, orderIdCounter, inflight, intervals, connections>>

\* the routes in front of the broker, with the ticks of a feed
NextRoutes ==
  \/ \E user \in Users, body \in ServerRequests : PostOrderCall(user, body)
  \/ PostOrderResume
  \/ \E user \in Users : GetPortfolio(user)
  \/ \E symbol \in Symbols : GetQuote(symbol)
  \/ \E quote \in QuoteInputs : UpdateMarketData(quote)

Routes == Init /\ [][NextRoutes]_vars

\* the websocket server and the timers of its subscriptions, with the order
\* route
NextFeed ==
  \/ \E user \in Users, body \in FeedRequests : PostOrderCall(user, body)
  \/ PostOrderResume
  \/ \E socket \in Sockets : Connect(socket)
  \/ \E socket \in Sockets, symbols \in SymbolLists : HandleSubscribe(socket, symbols)
  \/ \E socket \in Sockets, symbols \in SymbolLists : HandleUnsubscribe(socket, symbols)
  \/ \E socket \in Sockets : HandleDisconnect(socket)
  \/ \E i \in 1..MaxIntervals : IntervalFires(i)

Feed == Init /\ [][NextFeed]_vars

\* one subscriber and its timers, with resting orders of two kinds for the
\* simulated ticks to fill
TickerRequests ==
  {OrderRequest(s, "buy", "limit", 1, Some(p), None) : s \in defaultSymbols, p \in LimitPrices}
  \cup {OrderRequest(s, "sell", "stop", 1, None, Some(p)) :
          s \in defaultSymbols, p \in StopPrices}

NextTicker ==
  \/ \E body \in TickerRequests : PostOrderCall(1, body)
  \/ PostOrderResume
  \/ Connect(1)
  \/ \E symbols \in SymbolLists : HandleSubscribe(1, symbols)
  \/ \E i \in 1..MaxIntervals : IntervalFires(i)

Ticker == Init /\ [][NextTicker]_vars

\* the websocket server and its timers alone, scheduled: a timer set by
\* setInterval fires every second, so none waits for ever
NextTimers ==
  \/ \E socket \in Sockets : Connect(socket)
  \/ \E socket \in Sockets, symbols \in SymbolLists : HandleSubscribe(socket, symbols)
  \/ \E socket \in Sockets, symbols \in SymbolLists : HandleUnsubscribe(socket, symbols)
  \/ \E socket \in Sockets : HandleDisconnect(socket)
  \/ \E i \in 1..MaxIntervals : IntervalFires(i)

FairFeed ==
  /\ Init
  /\ [][NextTimers]_vars
  /\ \A i \in 1..MaxIntervals : WF_vars(IntervalFires(i))

\* ================================================================= claims
\* the record of the order with this id
OrderOf(orderId) == orders[CHOOSE i \in Lookup(orders, orderId) : TRUE]

\* the price a fill against quote is made at
AskOrBid(side, quote) == IF side = "buy" THEN quote.ask ELSE quote.bid

\* the last call was placeOrder and has returned
Placed == last.op = "placeOrder"

\* the step is updateMarketData(quote)
Tick(quote) == /\ last'.op = "updateMarketData"
               /\ last'.quote = Some(quote)
               /\ orderIdCounter' = orderIdCounter

\* C1: a market order is returned filled, with the requested quantity, at the
\* ask (buy) or the bid (sell) of the quote in effect when it is placed: the
\* stored quote of its symbol, or the quote synthesized for the call when the
\* symbol has none.
C1_MarketFilledAtQuote ==
  Placed =>
    LET request == OrderOf(last.orderId).request
        result == last.result[1]
        quote == last.quote[1]
    IN  request.type = "market" =>
          /\ result.status = "filled"
          /\ result.filledQuantity = Some(request.quantity)
          /\ result.averagePrice = Some(AskOrBid(request.side, quote))
          /\ IF request.symbol \in DOMAIN marketData
               THEN quote = marketData[request.symbol]
               ELSE quote \in {baseQuote(request.symbol, b) : b \in BasePrices}

C1_Witness ==
  /\ Placed
  /\ OrderOf(last.orderId).request.type = "market"
  /\ OrderOf(last.orderId).request.side = "sell"
  /\ OrderOf(last.orderId).request.symbol \in DOMAIN marketData
  /\ last.result[1].status = "filled"
  /\ last.result[1].averagePrice = Some(marketData[OrderOf(last.orderId).request.symbol].bid)
  /\ Len(orders) > 1

\* a resting limit order: open, of kind limit, with its limit price
RestingLimit(o) == o.status = "open" /\ o.request.type = "limit" /\ o.request.price # None

\* quote crosses the limit of order o
Crosses(o, quote) ==
  /\ quote.symbol = o.request.symbol
  /\ IF o.request.side = "buy" THEN quote.ask <= o.request.price[1]
                               ELSE quote.bid >= o.request.price[1]

\* o, filled against quote
FilledAt(o, quote) ==
  [o EXCEPT !.status = "filled", !.filledQuantity = Some(o.request.quantity),
            !.averagePrice = Some(AskOrBid(o.request.side, quote))]

C2_Placement ==
  Placed =>
    LET request == OrderOf(last.orderId).request
        result == last.result[1]
        quote == last.quote[1]
    IN  (request.type = "limit" /\ request.price # None
         /\ ~Crosses(OrderOf(last.orderId), quote))
        => result.status = "open" /\ result.filledQuantity = None
           /\ result.averagePrice = None

C2_Step ==
  \A i \in 1..Len(orders) :
    RestingLimit(orders[i]) =>
      /\ Len(orders') >= i
      /\ IF \E quote \in QuoteInputs : Tick(quote) /\ Crosses(orders[i], quote)
           THEN \E quote \in QuoteInputs :
                  Tick(quote) /\ orders'[i] = FilledAt(orders[i], quote)
           ELSE orders'[i] = orders[i]

\* C2: a limit order that the quote at placement does not cross (buy: limit
\* price below the ask; sell: above the bid) is returned open with no filled
\* quantity; it is unchanged by every later step but an updateMarketData for
\* its symbol whose quote crosses it (buy: ask <= limit price; sell: bid >=
\* limit price), and that step fills it in full at that quote's ask (buy) or
\* bid (sell).
C2_LimitRestsUntilCrossed == [](C2_Placement) /\ [][C2_Step]_vars

C2_Witness ==
  /\ last.op = "updateMarketData"
  /\ \E k \in 1..Len(last.filled) :
       LET o == OrderOf(last.filled[k])
       IN  /\ o.request.type = "limit" /\ o.request.side = "buy"
           /\ o.status = "filled"
           /\ o.filledQuantity = Some(o.request.quantity)
           /\ o.averagePrice = Some(last.quote[1].ask)
           /\ o.averagePrice[1] < o.request.price[1]

RestingStop(o) == o.status = "open" /\ o.request.type = "stop" /\ o.request.stopPrice # None

\* quote triggers the stop of order o
Triggers(o, quote) ==
  /\ quote.symbol = o.request.symbol
  /\ IF o.request.side = "buy" THEN quote.last >= o.request.stopPrice[1]
                               ELSE quote.last <= o.request.stopPrice[1]

C4_Placement ==
  Placed =>
    LET o == OrderOf(last.orderId)
    IN  (o.request.type = "stop" /\ o.request.stopPrice # None
         /\ ~Triggers(o, last.quote[1]))
        => last.result[1].status = "open" /\ RestingStop(o)

C4_Step ==
  \A i \in 1..Len(orders) :
    RestingStop(orders[i]) =>
      /\ Len(orders') >= i
      /\ IF \E quote \in QuoteInputs : Tick(quote) /\ Triggers(orders[i], quote)
           THEN \E quote \in QuoteInputs :
                  /\ Tick(quote)
                  /\ OrderResponse(orders'[i]) = OrderResponse(FilledAt(orders[i], quote))
           ELSE orders'[i] = orders[i]

\* C4: a stop order the quote at placement does not trigger (buy: stop price
\* above last; sell: below last) is returned open; it is unchanged by every
\* later step but an updateMarketData for its symbol whose quote triggers it
\* (buy: last >= stop price; sell: last <= stop price), and that step fills it
\* in full at that quote's ask (buy) or bid (sell).
C4_StopRestsUntilTriggered == [](C4_Placement) /\ [][C4_Step]_vars

\* a stop buy filled by a tick at the ask, above the last that triggered it
C4_Witness ==
  /\ last.op = "updateMarketData"
  /\ \E k \in 1..Len(last.filled) :
       LET o == OrderOf(last.filled[k])
       IN  /\ o.request.stopPrice # None /\ o.request.side = "buy"
           /\ o.status = "filled"
           /\ last.quote[1].last >= o.request.stopPrice[1]
           /\ o.averagePrice = Some(last.quote[1].ask)
           /\ o.averagePrice[1] > last.quote[1].last

\* the fill-eligibility rule of order o against quote
Eligible(o, quote) ==
  \/ o.request.type = "market"
  \/ o.request.type = "limit" /\ o.request.price # None /\ Crosses(o, quote)
  \/ o.request.type = "stop" /\ o.request.stopPrice # None /\ Triggers(o, quote)

\* C5: placeOrder returns an order of any kind filled when the quote at
\* placement makes it eligible (a stop order when that quote triggers it), and
\* open only when it does not.
C5_EligibleFilledAtPlacement ==
  Placed =>
    (last.result[1].status = "filled"
       <=> Eligible(OrderOf(last.orderId), last.quote[1]))

\* a request that must be rejected
Malformed(request) ==
  \/ request.quantity <= 0
  \/ request.type = "limit" /\ request.price = None
  \/ request.type = "stop" /\ request.stopPrice = None

\* C6: a malformed request creates no state: it takes no order id and adds no
\* order record.
C6_MalformedCreatesNoState ==
  /\ \A i \in 1..Len(inflight) : ~Malformed(inflight[i].order)
  /\ \A i \in 1..Len(orders) : ~Malformed(orders[i].request)

C7_Step ==
  /\ Len(orders') >= Len(orders)
  /\ \A i \in 1..Len(orders) :
       /\ orders'[i].orderId = orders[i].orderId
       /\ orders[i].status = "open" => orders'[i].status \in {"open", "filled"}
       /\ orders[i].status = "filled" => OrderResponse(orders'[i]) = OrderResponse(orders[i])
  /\ \A i \in 1..Len(orders') : orders'[i].status \in {"open", "filled"}

\* C7: between calls an order is open or filled (pending is left before
\* placeOrder returns); an open order stays open or becomes filled, and a
\* filled order keeps its status, filled quantity and average price for ever.
C7_StatusMonotonic == [][C7_Step]_vars

\* a tick fills one order and passes over another of its symbol filled before
C7_Witness ==
  /\ last.op = "updateMarketData"
  /\ last.filled # <<>>
  /\ \E i \in 1..Len(orders) :
       /\ orders[i].status = "filled"
       /\ orders[i].request.symbol = last.quote[1].symbol
       /\ \A k \in 1..Len(last.filled) : last.filled[k] # orders[i].orderId
       /\ orders[i].averagePrice # Some(AskOrBid(orders[i].request.side, last.quote[1]))

\* C8: an order's filled quantity is absent or the requested quantity, and it
\* is the requested quantity exactly when the order is filled.
C8_AllOrNothing ==
  \A i \in 1..Len(orders) :
    /\ orders[i].filledQuantity \in {None, Some(orders[i].request.quantity)}
    /\ orders[i].filledQuantity = Some(orders[i].request.quantity)
         <=> orders[i].status = "filled"
    /\ orders[i].averagePrice # None <=> orders[i].status = "filled"

C8_Witness ==
  \E i, j \in 1..Len(orders) :
    /\ orders[i].status = "filled" /\ orders[i].filledQuantity = Some(orders[i].request.quantity)
    /\ orders[i].request.quantity > 0
    /\ orders[j].status = "open" /\ orders[j].filledQuantity = None
    /\ orders[j].request.price # None

\* the ledger after the fills of a log, applied in order to an empty ledger
RECURSIVE Replay(_, _)
Replay(log, n) ==
  IF n = 0 THEN <<>>
  ELSE updatePosition(Replay(log, n - 1), log[n].symbol, log[n].side,
                      log[n].filledQuantity, log[n].fillPrice)

\* C9: an order is filled once if it is filled and never otherwise, and the
\* ledger holds each fill exactly once: it is the ledger the logged fills
\* make, each applied once in order.
C9_FilledAtMostOnce ==
  /\ \A i \in 1..Len(orders) :
       Cardinality({k \in 1..Len(fillLog) : fillLog[k].orderId = orders[i].orderId})
         = IF orders[i].status = "filled" THEN 1 ELSE 0
  /\ \A k \in 1..Len(fillLog) :
       /\ Lookup(orders, fillLog[k].orderId) # {}
       /\ fillLog[k].filledQuantity = OrderOf(fillLog[k].orderId).request.quantity
  /\ positions = Replay(fillLog, Len(fillLog))

\* one tick fills two resting buys, and the position holds both
C9_Witness ==
  /\ last.op = "updateMarketData"
  /\ Len(last.filled) = 2
  /\ \A i \in 1..Len(orders) : orders[i].request.side = "buy"
  /\ \E s \in DOMAIN positions : positions[s].quantity = 2

C10_Result ==
  last.op = "getOrderStatus" =>
    IF \E i \in 1..Len(orders) : orders[i].orderId = last.orderId
      THEN LET o == OrderOf(last.orderId)
           IN  last.result = Some([orderId |-> last.orderId, status |-> o.status,
                                   filledQuantity |-> o.filledQuantity,
                                   averagePrice |-> o.averagePrice])
      ELSE last.result = None

C10_Step ==
  (last'.op = "getOrderStatus" /\ orderIdCounter' = orderIdCounter)
    => UNCHANGED <<marketData, orders, positions, orderIdCounter, inflight, fillLog,
                  intervals, connections>>

\* C10: getOrderStatus throws for an id no placeOrder has returned and
\* returns the order's current status, filled quantity and average price for
\* an id one has; either way it changes nothing.
C10_StatusLookup == [](C10_Result) /\ [][C10_Step]_vars

\* the lookup of an id that is taken but not yet returned throws
C10_Witness ==
  /\ last.op = "getOrderStatus"
  /\ last.result = None
  /\ \E i \in 1..Len(inflight) : inflight[i].orderId = last.orderId
  /\ Len(orders) > 0

\* the lookup of a filled order returns its fill
C10_WitnessKnown ==
  /\ last.op = "getOrderStatus"
  /\ last.result # None
  /\ last.result[1].status = "filled"
  /\ last.result[1].filledQuantity = Some(OrderOf(last.orderId).request.quantity)

\* the symbol has never been observed: the quote store holds nothing for it
Unobserved(symbol) == symbol \notin DOMAIN marketData

\* the symbol the last call asked about (getQuote or placeOrder)
AskedSymbol ==
  IF last.op = "placeOrder" THEN OrderOf(last.orderId).request.symbol
  ELSE last.quote[1].symbol

\* C11: getQuote and placeOrder for a symbol the quote store has never
\* observed do not fail: getQuote answers with a quote of that symbol whose
\* ask is strictly greater than its bid, placeOrder stores and answers the
\* order, evaluated against such a quote.
C11_UnknownSymbolServed ==
  (last.op \in {"getQuote", "placeOrder"} /\ last.quote # None /\ Unobserved(AskedSymbol)) =>
    /\ last.result # None
    /\ last.quote[1].symbol = AskedSymbol
    /\ last.quote[1].ask > last.quote[1].bid
    /\ last.op = "getQuote" => last.result = last.quote
    /\ last.op = "placeOrder" =>
         /\ last.result[1].status \in {"filled", "open"}
         /\ last.result[1].orderId = last.orderId
         /\ last.result[1].status = "filled" =>
              last.result[1].averagePrice
                = Some(AskOrBid(OrderOf(last.orderId).request.side, last.quote[1]))

\* a quote is answered for a symbol never observed, after an order on that
\* symbol was filled
C11_Witness ==
  /\ last.op = "getQuote"
  /\ Unobserved(last.quote[1].symbol)
  /\ \E i \in 1..Len(orders) :
       /\ orders[i].request.symbol = last.quote[1].symbol
       /\ orders[i].status = "filled"

\* the fills of the log that are of this symbol, in order
FillsOf(symbol) == SelectSeq(fillLog, LAMBDA f : f.symbol = symbol)

\* the units and the cost of the first n fills of a list
RECURSIVE Units(_, _)
Units(fills, n) == IF n = 0 THEN 0 ELSE Units(fills, n - 1) + fills[n].filledQuantity

RECURSIVE Cost(_, _)
Cost(fills, n) ==
  IF n = 0 THEN 0 ELSE Cost(fills, n - 1) + fills[n].filledQuantity * fills[n].fillPrice

\* the step is a call that made exactly one fill
OneFill == Len(fillLog') = Len(fillLog) + 1

TheFill == fillLog'[Len(fillLog')]

HeldBefore(symbol) == IF symbol \in DOMAIN positions THEN positions[symbol].quantity ELSE 0

C12_FirstBuy ==
  (OneFill /\ TheFill.side = "buy" /\ TheFill.symbol \notin DOMAIN positions) =>
    /\ TheFill.symbol \in DOMAIN positions'
    /\ positions'[TheFill.symbol].quantity = TheFill.filledQuantity
    /\ positions'[TheFill.symbol].averagePrice = RatInt(TheFill.fillPrice)

C12_BuysOnly ==
  \A s \in Symbols :
    LET fills == FillsOf(s)
    IN  (fills # <<>> /\ \A k \in 1..Len(fills) : fills[k].side = "buy") =>
          /\ s \in DOMAIN positions
          /\ positions[s].quantity = Units(fills, Len(fills))
          /\ RatMul(RatInt(positions[s].quantity), positions[s].averagePrice)
               = RatInt(Cost(fills, Len(fills)))

\* C12: the first buy fill of a symbol with no position creates a position
\* with the fill's quantity and the fill's price as average entry; after buy
\* fills only, the position's quantity is the sum of the fill quantities and
\* quantity * averagePrice is the total cost sum(qty * price) of the buys.
C12_WeightedAverage == [](C12_BuysOnly) /\ [][C12_FirstBuy]_vars

\* a buy of one unit and a buy of two units at another price
C12_Witness ==
  /\ Len(fillLog) = 2
  /\ fillLog[1].symbol = fillLog[2].symbol
  /\ fillLog[1].side = "buy" /\ fillLog[2].side = "buy"
  /\ fillLog[1].filledQuantity = 1 /\ fillLog[2].filledQuantity = 2
  /\ fillLog[1].fillPrice # fillLog[2].fillPrice
  /\ positions[fillLog[1].symbol].quantity = 3

C13_Positive == \A s \in DOMAIN positions : positions[s].quantity > 0

C13_Removed ==
  (OneFill /\ TheFill.side = "sell"
     /\ HeldBefore(TheFill.symbol) - TheFill.filledQuantity <= 0) =>
    /\ TheFill.symbol \notin DOMAIN positions'
    /\ \A p \in getPositions(positions') : p.symbol # TheFill.symbol

\* C13: every position of the ledger has a quantity strictly greater than 0;
\* a sell fill that brings a position to zero or below removes it, and
\* getPositions no longer returns its symbol.
C13_NoEmptyPosition == [](C13_Positive) /\ [][C13_Removed]_vars

\* two units bought, two units sold: the position is gone
C13_Witness ==
  /\ Len(fillLog) = 2
  /\ fillLog[1].symbol = fillLog[2].symbol
  /\ fillLog[1].side = "buy" /\ fillLog[2].side = "sell"
  /\ fillLog[1].filledQuantity = 2 /\ fillLog[2].filledQuantity = 2
  /\ fillLog[1].symbol \notin DOMAIN positions
  /\ last.op = "placeOrder"

\* the prices of a quote a position may be marked to
MarkPrices(quote) == {quote.bid, quote.ask, quote.last}

\* position p is position old marked to price: quantity and average entry
\* kept, currentPrice the price, unrealizedPnl recomputed against it
MarkedTo(p, old, price) ==
  /\ p.quantity = old.quantity
  /\ p.averagePrice = old.averagePrice
  /\ p.currentPrice = price
  /\ p.unrealizedPnl = RatMul(RatSub(RatInt(price), old.averagePrice), RatInt(old.quantity))

C14_Step ==
  \A quote \in QuoteInputs :
    (Tick(quote) /\ last'.filled = <<>> /\ quote.symbol \in DOMAIN positions) =>
      /\ quote.symbol \in DOMAIN positions'
      /\ \E price \in MarkPrices(quote) :
           MarkedTo(positions'[quote.symbol], positions[quote.symbol], price)

\* C14: after a quote update of a symbol that makes no fill, the position in
\* that symbol has currentPrice equal to the new mark price (the bid, the ask
\* or the last of the new quote) and unrealizedPnl = (currentPrice -
\* averagePrice) * quantity against it, quantity and averagePrice unchanged.
C14_MarkToMarket == [][C14_Step]_vars

\* the positions GET /portfolio reports to a user
ReportedTo(user, pos) == getPositions(pos)

\* the step is the fill of an order this user posted
FillOf(user) ==
  /\ last'.op = "placeOrder"
  /\ last'.filled # <<>>
  /\ last'.user = user

\* C15: a fill of one owner's order creates, changes and removes no position
\* that getPositions reports for another owner.
C15_OwnersApart ==
  [][\A owner \in Users, other \in Users :
       (FillOf(owner) /\ other # owner) =>
         ReportedTo(other, positions') = ReportedTo(other, positions)]_vars

\* the step is the firing of the i-th timer
Fires(i) == last'.op = "interval" /\ last'.interval = i /\ orderIdCounter' = orderIdCounter

\* the socket that set the i-th timer has since unsubscribed from its symbol
Unsubscribed(i) ==
  /\ intervals[i].socket \in DOMAIN connections
  /\ intervals[i].symbol \notin connections[intervals[i].socket].symbols

\* C16: once unsubscribeFromMarketData has returned, the timers of the
\* subscription are cancelled: they deliver no further tick to its callback,
\* move no quote and re-evaluate no order.
C16_UnsubscribeCancels ==
  [][\A i \in 1..Len(intervals) :
       (Fires(i) /\ Unsubscribed(i)) =>
         /\ last'.sent = <<>>
         /\ UNCHANGED <<marketData, orders, positions, fillLog>>]_vars

\* the step wrote an order update for this order to this socket
Notified(socket, orderId) ==
  \E k \in 1..Len(last'.sent) :
    /\ last'.sent[k].to = socket
    /\ last'.sent[k].type = "order_update"
    /\ last'.sent[k].orderId = orderId

\* the sockets a user has open after the step
SocketsOf(user) == {c \in DOMAIN connections' : connections'[c].userId = user}

\* C17: a step that fills an order writes an order update for it to the
\* owner's open sockets: at placement to every socket of the user who posted
\* it, on a tick (when every user has a socket open, hence the owner too) to
\* some socket.
C17_FillNotified ==
  [][Len(fillLog') > Len(fillLog) =>
       \A k \in 1..Len(last'.filled) :
         IF last'.op = "placeOrder"
           THEN \A c \in SocketsOf(last'.user) : Notified(c, last'.filled[k])
           ELSE (\A u \in Users : SocketsOf(u) # {}) =>
                  \E c \in DOMAIN connections' : Notified(c, last'.filled[k])]_vars

\* the socket is subscribed to the symbol
Active(socket, symbol) ==
  socket \in DOMAIN connections /\ symbol \in connections[socket].symbols

\* the step wrote a tick with this quote to this socket
TickTo(socket, quote) ==
  \E k \in 1..Len(last'.sent) :
    /\ last'.sent[k].to = socket
    /\ last'.sent[k].type = "tick"
    /\ last'.sent[k].quote = quote

\* C18: a tick of the simulated driver that changes the stored quote of a
\* symbol is in the quote store and is written to every socket subscribed to
\* the symbol.
C18_TickToAll ==
  [][\A s \in DOMAIN marketData :
       (last'.op = "interval" /\ marketData'[s] # marketData[s]) =>
         /\ last'.quote = Some(marketData'[s])
         /\ \A c \in Sockets : Active(c, s) => TickTo(c, marketData'[s])]_vars

\* the last step wrote a tick of this symbol to this socket
Delivered(socket, symbol) ==
  /\ last.op = "interval"
  /\ \E k \in 1..Len(last.sent) :
       /\ last.sent[k].to = socket
       /\ last.sent[k].type = "tick"
       /\ last.sent[k].quote.symbol = symbol

\* C19: while a socket is subscribed to a symbol, observed by the quote
\* store or not, a tick of that symbol is delivered to it again and again.
C19_TicksRecur ==
  \A c \in Sockets, s \in Symbols :
    [](Active(c, s) => <>(~Active(c, s) \/ Delivered(c, s)))

\* C20: in every state between operations no stored order is pending, and
\* no call answers with a pending order: a placement is resolved to filled
\* or open in the step that inserts the record, whatever calls are suspended
\* at their await around it.
C20_NeverPending ==
  /\ \A i \in 1..Len(orders) : orders[i].status \in {"filled", "open"}
  /\ (last.op \in {"placeOrder", "getOrderStatus"} /\ last.result # None) =>
       last.result[1].status \in {"filled", "open"}

\* two calls were suspended together; the first has returned an open order,
\* the second is still suspended
C20_Witness ==
  /\ Len(inflight) = 1
  /\ Len(orders) = 1
  /\ orders[1].status = "open"
  /\ last.op = "placeOrder"
  /\ inflight[1].orderId = orders[1].orderId + 1

C21_Step ==
  \A i \in 1..Len(intervals) :
    (Fires(i) /\ last'.sent # <<>>) =>
      LET quote == last'.sent[1].quote
      IN  /\ last'.sent[1].type = "tick"
          /\ marketData'[quote.symbol] = quote
          /\ \A j \in 1..Len(orders') :
               (orders'[j].status = "open" /\ orders'[j].request.symbol = quote.symbol)
                 => ~Eligible(orders'[j], quote)
          /\ \A k \in 1..Len(last'.filled) :
               /\ \E j \in Lookup(orders, last'.filled[k]) :
                    /\ orders[j].status = "open"
                    /\ Eligible(orders[j], quote)
                    /\ orders'[j] = FilledAt([orders[j] EXCEPT !.request.type =
                                                IF @ = "stop" THEN "market" ELSE @], quote)
               /\ last'.filled[k] = fillLog'[Len(fillLog) + k].orderId
          /\ positions' = Replay(fillLog', Len(fillLog'))

\* C21: when the callback of a simulated emission gets its tick, the quote
\* of the tick is the stored quote, every order the quote makes eligible is
\* filled and its fill is in the ledger: no order of the symbol is open and
\* eligible against the tick in the state the subscriber can then read.
C21_EngineBeforeCallback == [][C21_Step]_vars

\* a simulated emission filled a resting stop and a resting limit order and
\* sent its tick
C21_Witness ==
  /\ last.op = "interval"
  /\ last.sent # <<>>
  /\ Len(last.filled) = 2
  /\ OrderOf(last.filled[1]).request.stopPrice # None
  /\ OrderOf(last.filled[1]).averagePrice = Some(last.quote[1].bid)
  /\ OrderOf(last.filled[2]).status = "filled"
  /\ OrderOf(last.filled[2]).averagePrice = Some(last.quote[1].ask)

C22_Kinds ==
  \A i \in 1..Len(orders) :
    /\ orders[i].request.type = "market" => orders[i].status = "filled"
    /\ orders[i].request.type = "stop" => orders[i].status \in {"open", "pending"}

C22_Step ==
  \A i \in 1..Len(orders) :
    /\ (RestingStop(orders[i]) /\ orders'[i].status = "filled") =>
         orders'[i].request = [orders[i].request EXCEPT !.type = "market"]
    /\ orders'[i].request # orders[i].request =>
         /\ RestingStop(orders[i])
         /\ last'.op = "updateMarketData"
         /\ Triggers(orders[i], last'.quote[1])
         /\ orders'[i].status = "filled"
         /\ orders'[i].request = [orders[i].request EXCEPT !.type = "market"]

\* C22: a stop order that triggers becomes a market order and is filled in
\* the same pass, and nothing else changes the kind of an order: no order is
\* of kind market and open or pending, and no order of kind stop is filled.
C22_StopConverted == [](C22_Kinds) /\ [][C22_Step]_vars

\* a tick has triggered a resting stop: it is now a filled market order that
\* still has its stop price
C22_Witness ==
  /\ last.op = "updateMarketData"
  /\ Len(last.filled) = 1
  /\ OrderOf(last.filled[1]).request.type = "market"
  /\ OrderOf(last.filled[1]).request.stopPrice # None
  /\ OrderOf(last.filled[1]).status = "filled"

\* C23: updateMarketData(quote) leaves as they are every order of another
\* symbol, every order already filled, every position in another symbol (it
\* adds none there either) and the stored quote of every other symbol.
C23_OwnSymbolOnly ==
  [][last'.op = "updateMarketData" /\ orderIdCounter' = orderIdCounter =>
       LET quote == last'.quote[1]
       IN  /\ Len(orders') = Len(orders)
           /\ \A i \in 1..Len(orders) :
                (orders[i].request.symbol # quote.symbol \/ orders[i].status = "filled")
                  => orders'[i] = orders[i]
           /\ \A k \in 1..Len(last'.filled) :
                OrderOf(last'.filled[k]).request.symbol = quote.symbol
           /\ \A s \in Symbols \ {quote.symbol} :
                /\ (s \in DOMAIN positions') = (s \in DOMAIN positions)
                /\ s \in DOMAIN positions => positions'[s] = positions[s]
                /\ (s \in DOMAIN marketData') = (s \in DOMAIN marketData)
                /\ s \in DOMAIN marketData => marketData'[s] = marketData[s]]_vars

\* a tick of one symbol has filled a resting order of that symbol while an
\* order of the other symbol rests, crossed by its own stored quote's level
C23_Witness ==
  /\ last.op = "updateMarketData"
  /\ Len(last.filled) = 1
  /\ \E i \in 1..Len(orders) :
       /\ orders[i].status = "open"
       /\ orders[i].request.symbol # last.quote[1].symbol
       /\ orders[i].request.price[1] >= last.quote[1].ask
  /\ \E s \in DOMAIN marketData : s # last.quote[1].symbol

\* the ids of the stored orders and of the calls suspended at their await
StoredIds == {orders[i].orderId : i \in 1..Len(orders)}
SuspendedIds == {inflight[i].orderId : i \in 1..Len(inflight)}

C24_Distinct ==
  /\ Cardinality(StoredIds) = Len(orders)
  /\ Cardinality(SuspendedIds) = Len(inflight)
  /\ StoredIds \cap SuspendedIds = {}
  /\ StoredIds \cup SuspendedIds = 1..(orderIdCounter - 1)

C24_Step ==
  (last'.op = "placeOrder" /\ Len(inflight') < Len(inflight)) =>
    /\ last'.orderId \notin StoredIds
    /\ last'.result[1].orderId = last'.orderId
    /\ Len(orders') = Len(orders) + 1
    /\ orders'[Len(orders')].orderId = last'.orderId
    /\ \A i \in 1..Len(orders) : orders'[i].orderId = orders[i].orderId

\* C24: the ids of the stored orders and of the calls suspended at their
\* await are all different, and a placement returns an id no stored order
\* has and adds one record, replacing none.
C24_UniqueIds == [](C24_Distinct) /\ [][C24_Step]_vars

\* two placements have returned, with the ids 1 and 2
C24_Witness ==
  /\ Len(orders) = 2
  /\ inflight = <<>>
  /\ last.op = "placeOrder"
  /\ last.orderId = 2
  /\ orders[1].orderId = 1
  /\ orders[1].request # orders[2].request

C25_Marked ==
  \A s \in DOMAIN positions :
    LET p == positions[s]
        fills == FillsOf(s)
    IN  /\ fills # <<>>
        /\ p.currentPrice = fills[Len(fills)].fillPrice
        /\ p.unrealizedPnl = RatMul(RatSub(RatInt(p.currentPrice), p.averagePrice),
                                    RatInt(p.quantity))

C25_SellStep ==
  (OneFill /\ TheFill.side = "sell"
     /\ HeldBefore(TheFill.symbol) - TheFill.filledQuantity > 0) =>
    /\ TheFill.symbol \in DOMAIN positions'
    /\ positions'[TheFill.symbol].quantity
         = positions[TheFill.symbol].quantity - TheFill.filledQuantity
    /\ positions'[TheFill.symbol].averagePrice = positions[TheFill.symbol].averagePrice

\* C25: every position has currentPrice equal to the price of the latest
\* fill of its symbol and unrealizedPnl = (currentPrice - averagePrice) *
\* quantity; a sell fill that leaves a quantity above zero takes the fill
\* quantity off the position and keeps its averagePrice.
C25_PnlOfLastFill == [](C25_Marked) /\ [][C25_SellStep]_vars

\* two units bought at the ask, one sold at the bid: one unit is left,
\* marked at the bid, at a loss
C25_Witness ==
  /\ Len(fillLog) = 2
  /\ fillLog[1].symbol = fillLog[2].symbol
  /\ fillLog[1].side = "buy" /\ fillLog[2].side = "sell"
  /\ fillLog[1].filledQuantity = 2 /\ fillLog[2].filledQuantity = 1
  /\ positions[fillLog[1].symbol].quantity = 1
  /\ positions[fillLog[1].symbol].currentPrice = fillLog[2].fillPrice
  /\ positions[fillLog[1].symbol].unrealizedPnl[1] < 0

\* the position a buy fill opens on its own
Fresh(fill) ==
  [symbol |-> fill.symbol, quantity |-> fill.filledQuantity,
   averagePrice |-> RatInt(fill.fillPrice), currentPrice |-> fill.fillPrice,
   unrealizedPnl |-> RatInt(0)]

C26_Step ==
  (OneFill /\ TheFill.symbol \notin DOMAIN positions) =>
    IF TheFill.side = "sell"
      THEN /\ positions' = positions
           /\ last'.op = "placeOrder" =>
                /\ last'.result[1].status = "filled"
                /\ last'.result[1].filledQuantity
                     = Some(orders'[Len(orders')].request.quantity)
                /\ TheFill.filledQuantity = orders'[Len(orders')].request.quantity
      ELSE /\ DOMAIN positions' = DOMAIN positions \cup {TheFill.symbol}
           /\ positions'[TheFill.symbol] = Fresh(TheFill)

\* C26: a sell filled while its symbol has no position is reported filled
\* with its full quantity and leaves the ledger as it is, and a buy filled
\* while its symbol has no position, after such a sell too, opens a position
\* of the buy's quantity at the buy's fill price alone.
C26_NoShort == [][C26_Step]_vars

\* two units sold with nothing held, then one unit bought: the position is
\* one unit at the buy's price
C26_Witness ==
  /\ Len(fillLog) = 2
  /\ fillLog[1].symbol = fillLog[2].symbol
  /\ fillLog[1].side = "sell" /\ fillLog[2].side = "buy"
  /\ fillLog[1].filledQuantity = 2 /\ fillLog[2].filledQuantity = 1
  /\ Len(orders) = 2 /\ orders[1].status = "filled"
  /\ orders[1].filledQuantity = Some(2)
  /\ positions[fillLog[2].symbol] = Fresh(fillLog[2])

\* the connection that set the i-th timer has been closed
Closed(i) == intervals[i].socket \notin DOMAIN connections

\* C27: once handleDisconnect has run for a connection, the timers its
\* subscriptions set no longer call its tick callback: nothing more is
\* written to its socket.
C27_ClosedGetsNoTick ==
  [][\A i \in 1..Len(intervals) :
       (Fires(i) /\ Closed(i)) =>
         \A k \in 1..Len(last'.sent) : last'.sent[k].to # intervals[i].socket]_vars

\* nothing is in progress: no call is suspended
Quiescent == inflight = <<>>

\* the filled quantity an order record stands for (unset: nothing filled)
FilledUnits(o) == IF o.filledQuantity = None THEN 0 ELSE o.filledQuantity[1]

\* C28: whenever the system is quiescent, the row of each order placed
\* through the order route has the status and the filled quantity the engine
\* holds for that order (the k-th row is the row of the k-th order).
C28_RowsTrackEngine ==
  Quiescent =>
    /\ Len(orderRows) = Len(orders)
    /\ \A k \in 1..Len(orderRows) :
         /\ orderRows[k].status = orders[k].status
         /\ orderRows[k].filledQuantity = FilledUnits(orders[k])

\* the ids of the resting orders quote makes eligible
EligibleIds(quote) ==
  {orders[i].orderId : i \in {j \in 1..Len(orders) :
     /\ orders[j].status = "open"
     /\ orders[j].request.symbol = quote.symbol
     /\ Eligible(orders[j], quote)}}

\* the ledger after the fills against quote of the orders of ids, taken in
\* ascending order of id up to id
RECURSIVE FilledInIdOrder(_, _, _, _)
FilledInIdOrder(pos, ids, quote, id) ==
  IF id = 0 THEN pos
  ELSE LET before == FilledInIdOrder(pos, ids, quote, id - 1)
       IN  IF id \notin ids THEN before
           ELSE LET request == OrderOf(id).request
                IN  updatePosition(before, request.symbol, request.side, request.quantity,
                                   AskOrBid(request.side, quote))

C29_Step ==
  (last'.op = "updateMarketData" /\ orderIdCounter' = orderIdCounter) =>
    LET quote == last'.quote[1]
        filled == last'.filled
    IN  /\ Range(filled) = EligibleIds(quote)
        /\ \A k \in 1..(Len(filled) - 1) : filled[k] < filled[k + 1]
        /\ \A k \in 1..Len(filled) :
             LET fill == fillLog'[Len(fillLog) + k]
             IN  /\ fill.orderId = filled[k]
                 /\ fill.fillPrice = AskOrBid(fill.side, quote)
        /\ positions' = FilledInIdOrder(positions, Range(filled), quote, orderIdCounter - 1)

\* C29: the resting orders one tick makes eligible are all filled by it, in
\* ascending order of id, each at the tick's ask (buy) or bid (sell), and the
\* ledger is the one their fills make when applied in that order.
C29_PlacementOrder == [][C29_Step]_vars

\* one tick has filled a resting sell placed first and a resting buy placed
\* second: the sale found nothing to reduce, the purchase is held
C29_Witness ==
  /\ last.op = "updateMarketData"
  /\ last.filled = <<1, 2>>
  /\ OrderOf(1).request.side = "sell"
  /\ OrderOf(2).request.side = "buy"
  /\ OrderOf(1).request.symbol \in DOMAIN positions
  /\ positions[OrderOf(1).request.symbol].quantity = 1

\* a getQuote call leaves the quote store as it was
C30_StoreUntouched ==
  (last'.op = "getQuote" /\ last' # last) => marketData' = marketData

\* a getQuote call right after a getQuote call for the same symbol returns
\* the same quote
C30_SameAnswer ==
  (/\ last.op = "getQuote"
   /\ last'.op = "getQuote"
   /\ last'.quote[1].symbol = last.quote[1].symbol) =>
    last'.quote[1] = last.quote[1]

\* a placeOrder call right after a getQuote call for its symbol holds, at its
\* await, the quote that getQuote call returned
C30_SameAsPlacement ==
  (/\ last.op = "getQuote"
   /\ Len(inflight') = Len(inflight) + 1
   /\ inflight'[Len(inflight')].order.symbol = last.quote[1].symbol) =>
    inflight'[Len(inflight')].quote = last.quote[1]

\* C30: getQuote never changes the quote store, two getQuote calls for one
\* symbol with no updateMarketData between them return the same bid, ask and
\* last, and the quote read right before placeOrder is the quote placeOrder
\* evaluates the order against.
C30_DeterministicRead ==
  [][C30_StoreUntouched /\ C30_SameAnswer /\ C30_SameAsPlacement]_vars

====
